---- MODULE Spec2Model ----
(***************************************************************************)
(* Model of the arc aggregation engine of exsitu (lib/arc-utils.ts):       *)
(* countUniqueArcs, aggregateByCountry, clusterArcs, clusterArcsByCity,    *)
(* getArcsByZoomLevel and filterArcsByBounds; and of the code that feeds   *)
(* it: the page component (app/page.tsx), the API client (lib/api.ts),     *)
(* the proxy route and the stats route (app/api).                          *)
(*                                                                         *)
(* Numbers.  A coordinate is a JavaScript value: undefined, null, NaN,     *)
(* Infinity or a finite number.  Finite coordinates are integers counting  *)
(* thirds of a hundredth of a degree (k stands for k/300 degrees), so that *)
(* toFixed(2) really rounds (1 -> "0.00", 2 -> "0.01") and never meets a   *)
(* tie.  Bounds and padding use the same unit.  Centroids are kept in      *)
(* units of 1/Fine of that unit so that repeated halving stays exact.      *)
(* The zoom and the four components of the bounds are such values as well  *)
(* (zoom levels in halves); Infinity stands for positive infinity.         *)
(*                                                                         *)
(* References.  The input array is the variable objects; every list of     *)
(* records handled by the engine (arguments, members of an arc) is a       *)
(* sequence of indices into objects, so that two records with equal        *)
(* fields remain two records.                                              *)
(*                                                                         *)
(* Time.  now is Date.now() in milliseconds.  The asynchronous functions   *)
(* of the application run in steps: one action is the synchronous code     *)
(* between two awaits.  A response may arrive at any later moment.  The     *)
(* clock of the API client moves by one request interval and its timers    *)
(* fire at their time; the clocks of the proxy and of the stats route move  *)
(* in long steps and a timer fires at the first step that reaches its      *)
(* time.                                                                   *)
(***************************************************************************)
EXTENDS Integers, Sequences, FiniteSets, TLC

VARIABLES objects, call, retArcs, retCount, retAggs, threw, inner, held,
          now, client, proxy, stats, page

vars == <<objects, call, retArcs, retCount, retAggs, threw, inner, held,
          now, client, proxy, stats, page>>

\* The variables of the arc engine and of its caller.
engine == <<objects, call, retArcs, retCount, retAggs, threw, inner, held>>

\* The clock and the state of the application around the engine: the API
\* client (lib/api.ts), the proxy route, the stats route, the page component.
world == <<now, client, proxy, stats, page>>

\* Longest input array.
MaxLen == 3

\* Longest input array where the size cap is studied.
MaxCapLen == 4

\* Most requests of the page that await their response at one time.
MaxInFlight == 2

\* Pages of results that the API holds for a viewport (pagination.pageCount).
MaxPages == 2

\* Most invocations of fetchWithRateLimit in one behaviour.
MaxCalls == 2

\* Steps of the clock in one behaviour.
MaxTicks == 5

\* Most requests of one client that miss the cache in one 60-second window.
MaxArrivals == 11

\* Most kinds of request (client, URL, stage, timer) that the proxy is
\* forwarding at one time.
MaxForwarding == 1

\* Steps of the clock in one behaviour of the proxy.
MaxWindowTicks == 2

\* Steps of the clock in one behaviour of the stats route.
MaxStatsTicks == 5

\* ---------------------------------------------------------------- values

Undef == [t |-> "undefined", v |-> 0]
Null == [t |-> "null", v |-> 0]
NaN == [t |-> "NaN", v |-> 0]
Inf == [t |-> "Infinity", v |-> 0]
Num(k) == [t |-> "number", v |-> k]

\* A falsy label (undefined, null or the empty string).
NoLabel == ""

Abs(k) == IF k < 0 THEN 0 - k ELSE k

\* Number.prototype.toFixed(2) on a number value (NaN and Infinity
\* included); v counts thirds of a hundredth, the result is the string.
toFixed2(c) ==
  IF c.t = "NaN" THEN "NaN"
  ELSE IF c.t = "Infinity" THEN "Infinity"
  ELSE LET n == (Abs(c.v) + 1) \div 3
       IN  (IF c.v < 0 THEN "-" ELSE "")
             \o ToString(n \div 100) \o "."
             \o ToString((n % 100) \div 10) \o ToString(n % 10)

\* x !== undefined && x !== null && !isNaN(x) for a coordinate x.
PresentNotNaN(c) == c.t \notin {"undefined", "null", "NaN"}

\* JavaScript truthiness of a coordinate (0, NaN, null, undefined are falsy).
Truthy(c) == c.t = "Infinity" \/ (c.t = "number" /\ c.v # 0)

\* a === b on two coordinates that passed the validity filter.
StrictEq(a, b) == a.t = b.t /\ a.v = b.v

\* a >= b and a <= b where a is a coordinate and b a finite number:
\* undefined and NaN compare false, null converts to 0.
GeNum(a, b) ==
  CASE a.t = "number" -> a.v >= b
    [] a.t = "null" -> 0 >= b
    [] a.t = "Infinity" -> TRUE
    [] OTHER -> FALSE

LeNum(a, b) ==
  CASE a.t = "number" -> a.v <= b
    [] a.t = "null" -> 0 <= b
    [] OTHER -> FALSE

\* a >= b and a <= b on two JavaScript values (bounds and zoom arrive as
\* values too): a NaN or undefined operand compares false.
Ge(a, b) ==
  CASE b.t = "number" -> GeNum(a, b.v)
    [] b.t = "null" -> GeNum(a, 0)
    [] b.t = "Infinity" -> a.t = "Infinity"
    [] OTHER -> FALSE

Le(a, b) ==
  CASE b.t = "number" -> LeNum(a, b.v)
    [] b.t = "null" -> LeNum(a, 0)
    [] b.t = "Infinity" -> a.t \in {"number", "null", "Infinity"}
    [] OTHER -> FALSE

\* a + k for a number value a and a finite k (NaN and Infinity absorb).
Plus(a, k) == IF a.t = "number" THEN Num(a.v + k) ELSE a

\* --------------------------------------------------------------- records

\* A MuseumObject; hasAttributes = FALSE is a record without `attributes`.
Rec(lon, lat, ilon, ilat, country, city, icity) ==
  [hasAttributes |-> TRUE,
   longitude |-> lon, latitude |-> lat,
   institution_longitude |-> ilon, institution_latitude |-> ilat,
   country_en |-> country, city_en |-> city, institution_city_en |-> icity]

NoAttributes ==
  [hasAttributes |-> FALSE,
   longitude |-> Undef, latitude |-> Undef,
   institution_longitude |-> Undef, institution_latitude |-> Undef,
   country_en |-> NoLabel, city_en |-> NoLabel, institution_city_en |-> NoLabel]

\* All arrays over a pool of records, up to maxLen elements.
ArraysOver(pool, maxLen) == UNION {[1..n -> pool] : n \in 0..maxLen}

Refs(objs) == [i \in 1..Len(objs) |-> i]

\* ------------------------------------------------------- array utilities

\* Array.prototype.slice(0, end): a negative end counts from the back.
Slice0(arr, end) ==
  LET e == IF end < 0 THEN (IF Len(arr) + end < 0 THEN 0 ELSE Len(arr) + end)
           ELSE (IF end > Len(arr) THEN Len(arr) ELSE end)
  IN  SubSeq(arr, 1, e)

\* Inserts arc a into an array already sorted by count descending, after
\* every arc whose count is at least a.count (so equal counts keep their order).
RECURSIVE InsertByCount(_, _)
InsertByCount(sorted, a) ==
  IF sorted = <<>> THEN <<a>>
  ELSE IF Head(sorted).count >= a.count
       THEN <<Head(sorted)>> \o InsertByCount(Tail(sorted), a)
       ELSE <<a>> \o sorted

RECURSIVE SortFrom(_, _)
SortFrom(sorted, rest) ==
  IF rest = <<>> THEN sorted
  ELSE SortFrom(InsertByCount(sorted, Head(rest)), Tail(rest))

\* arr.sort((a, b) => b.count - a.count): Array.prototype.sort is stable.
SortByCountDesc(arr) == SortFrom(<<>>, arr)

\* CapArcs without the sort: truncates in insertion order.
CapArcsUnsorted(arcs, maxArcs) ==
  IF Len(arcs) > maxArcs THEN Slice0(arcs, maxArcs) ELSE arcs

\* if (arcs.length > maxArcs) { sort by count descending; slice(0, maxArcs) }
CapArcs(arcs, maxArcs) ==
  IF Len(arcs) > maxArcs THEN Slice0(SortByCountDesc(arcs), maxArcs) ELSE arcs

\* Index of the cluster with this id in a Map kept in insertion order, or 0.
IndexOfId(clusters, key) ==
  IF \E i \in 1..Len(clusters) : clusters[i].id = key
  THEN CHOOSE i \in 1..Len(clusters) : clusters[i].id = key
  ELSE 0

\* ------------------------------------------------------------ the engine

\* The validity filter shared by countUniqueArcs, clusterArcs and
\* clusterArcsByCity: the four coordinates are not undefined, not null and
\* not NaN (attributes?. makes a record without attributes fail the first test).
ValidCoordinates(o) ==
  /\ o.hasAttributes
  /\ PresentNotNaN(o.institution_longitude)
  /\ PresentNotNaN(o.institution_latitude)
  /\ PresentNotNaN(o.longitude)
  /\ PresentNotNaN(o.latitude)

\* The validity filter leaving out the first record of its argument.
ValidObjectsSkippingFirst(objs, refs) ==
  IF refs = <<>> THEN <<>>
  ELSE SelectSeq(Tail(refs), LAMBDA r : ValidCoordinates(objs[r]))

\* objects.filter(valid coordinates): the records kept, in input order.
ValidObjects(objs, refs) == SelectSeq(refs, LAMBDA r : ValidCoordinates(objs[r]))

\* The object-level key: the four coordinates rounded to 2 decimals.
ObjectKey(o) ==
  toFixed2(o.longitude) \o "," \o toFixed2(o.latitude) \o "-"
    \o toFixed2(o.institution_longitude) \o "," \o toFixed2(o.institution_latitude)

\* clusterArcs skips a record whose source and target are the same numbers.
SamePlace(o) ==
  /\ StrictEq(o.longitude, o.institution_longitude)
  /\ StrictEq(o.latitude, o.institution_latitude)

\* AddToCluster moving the endpoints of a cluster to its latest member.
AddToClusterMoving(clusters, objs, ref, key, level) ==
  LET i == IndexOfId(clusters, key)
      o == objs[ref]
      arc == [id |-> key,
              sourcePosition |-> <<o.longitude, o.latitude>>,
              targetPosition |-> <<o.institution_longitude, o.institution_latitude>>,
              count |-> 1,
              objects |-> <<ref>>,
              level |-> level]
  IN  IF i # 0
      THEN [clusters EXCEPT ![i] = [arc EXCEPT !.count = clusters[i].count + 1,
                                               !.objects = Append(clusters[i].objects, ref)]]
      ELSE Append(clusters, arc)

\* One step of a clustering loop: record ref joins the cluster with its key
\* or creates it from its own coordinates.
AddToCluster(clusters, objs, ref, key, level) ==
  LET i == IndexOfId(clusters, key)
      o == objs[ref]
  IN  IF i # 0
      THEN [clusters EXCEPT ![i].count = @ + 1, ![i].objects = Append(@, ref)]
      ELSE Append(clusters,
                  [id |-> key,
                   sourcePosition |-> <<o.longitude, o.latitude>>,
                   targetPosition |-> <<o.institution_longitude, o.institution_latitude>>,
                   count |-> 1,
                   objects |-> <<ref>>,
                   level |-> level])

RECURSIVE ObjectClusters(_, _, _)
ObjectClusters(clusters, objs, refs) ==
  IF refs = <<>> THEN clusters
  ELSE LET o == objs[Head(refs)]
       IN  ObjectClusters(
             IF SamePlace(o) THEN clusters
             ELSE AddToCluster(clusters, objs, Head(refs), ObjectKey(o), "object"),
             objs, Tail(refs))

\* clusterArcs(objects, maxArcs)
clusterArcs(objs, refs, maxArcs) ==
  LET validObjects == ValidObjects(objs, refs)
  IN  IF validObjects = <<>> THEN <<>>
      ELSE CapArcs(ObjectClusters(<<>>, objs, validObjects), maxArcs)

\* The test that closes clusterArcsByCity's filter: city_en is truthy.
ValidCityObject(o) == ValidCoordinates(o) /\ o.city_en # NoLabel

\* objects.filter(valid coordinates and a city): the records kept, in order.
ValidCityObjects(objs, refs) == SelectSeq(refs, LAMBDA r : ValidCityObject(objs[r]))

\* label || "Unknown"
OrUnknown(label) == IF label = NoLabel THEN "Unknown" ELSE label

\* The city-level key.
CityKey(o) == OrUnknown(o.city_en) \o "-to-" \o OrUnknown(o.institution_city_en)

\* clusterArcsByCity skips unknown cities and a city paired with itself.
SkipCity(o) ==
  \/ OrUnknown(o.city_en) = "Unknown"
  \/ OrUnknown(o.institution_city_en) = "Unknown"
  \/ OrUnknown(o.city_en) = OrUnknown(o.institution_city_en)

RECURSIVE CityClusters(_, _, _)
CityClusters(clusters, objs, refs) ==
  IF refs = <<>> THEN clusters
  ELSE LET o == objs[Head(refs)]
       IN  CityClusters(
             IF SkipCity(o) THEN clusters
             ELSE AddToCluster(clusters, objs, Head(refs), CityKey(o), "city"),
             objs, Tail(refs))

\* clusterArcsByCity(objects, maxArcs)
clusterArcsByCity(objs, refs, maxArcs) ==
  LET validObjects == ValidCityObjects(objs, refs)
  IN  IF validObjects = <<>> THEN <<>>
      ELSE CapArcs(CityClusters(<<>>, objs, validObjects), maxArcs)

\* countUniqueArcs compares the rounded strings, not the numbers.
SameRounded(o) ==
  /\ toFixed2(o.longitude) = toFixed2(o.institution_longitude)
  /\ toFixed2(o.latitude) = toFixed2(o.institution_latitude)

\* countUniqueArcs(objects): the size of the Set of keys.
countUniqueArcs(objs) ==
  IF Len(objs) = 0 THEN 0
  ELSE LET validObjects == ValidObjects(objs, Refs(objs))
       IN  Cardinality({ObjectKey(objs[validObjects[i]]) :
                          i \in {j \in 1..Len(validObjects) :
                                   ~SameRounded(objs[validObjects[j]])}})

\* ------------------------------------------------------ aggregateByCountry

\* Centroid coordinates are kept in units of 1/Fine of the coordinate unit:
\* every (a + b) / 2 of at most MaxLen records is then an exact integer.
RECURSIVE Pow2(_)
Pow2(n) == IF n = 0 THEN 1 ELSE 2 * Pow2(n - 1)

Fine == Pow2(MaxLen)

ToFine(c) == IF c.t = "number" THEN Num(c.v * Fine) ELSE c

\* (a + b) / 2 on centroid values (Infinity absorbs).
Halve(a, b) ==
  IF a.t = "Infinity" \/ b.t = "Infinity" THEN Inf ELSE Num((a.v + b.v) \div 2)

\* latitude === 0 && longitude === 0
IsZeroZero(agg) == agg.latitude = Num(0) /\ agg.longitude = Num(0)

\* The body of the forEach for one record whose country is kept.
AddToCountry(aggs, objs, ref, country) ==
  LET o == objs[ref]
      i0 == IF \E i \in 1..Len(aggs) : aggs[i].country = country
            THEN CHOOSE i \in 1..Len(aggs) : aggs[i].country = country
            ELSE 0
      base == IF i0 # 0 THEN aggs
              ELSE Append(aggs, [country |-> country, count |-> 0,
                                 latitude |-> Num(0), longitude |-> Num(0),
                                 objects |-> <<>>])
      i == IF i0 # 0 THEN i0 ELSE Len(base)
      counted == [base EXCEPT ![i].count = @ + 1, ![i].objects = Append(@, ref)]
  IN  IF Truthy(o.latitude) /\ Truthy(o.longitude)
      THEN IF IsZeroZero(counted[i])
           THEN [counted EXCEPT ![i].latitude = ToFine(o.latitude),
                                ![i].longitude = ToFine(o.longitude)]
           ELSE [counted EXCEPT ![i].latitude = Halve(@, ToFine(o.latitude)),
                                ![i].longitude = Halve(@, ToFine(o.longitude))]
      ELSE counted

RECURSIVE CountryFold(_, _, _)
CountryFold(aggs, objs, refs) ==
  IF refs = <<>> THEN aggs
  ELSE LET country == OrUnknown(objs[Head(refs)].country_en)
       IN  CountryFold(
             IF country = "Unknown" THEN aggs
             ELSE AddToCountry(aggs, objs, Head(refs), country),
             objs, Tail(refs))

\* aggregateByCountry(objects): obj.attributes.country_en throws a TypeError
\* on a record without attributes, and the forEach reaches every record.
aggregateByCountry(objs) ==
  IF Len(objs) = 0 THEN [threw |-> FALSE, aggs |-> <<>>]
  ELSE IF \E i \in 1..Len(objs) : ~objs[i].hasAttributes
       THEN [threw |-> TRUE, aggs |-> <<>>]
       ELSE [threw |-> FALSE, aggs |-> CountryFold(<<>>, objs, Refs(objs))]

\* ------------------------------------------------------ getArcsByZoomLevel

\* Zoom levels are counted in halves (9 stands for zoom 4.5).
ZoomScale(level) == 2 * level

GLOBAL_VIEW_ZOOM == 4
CITY_VIEW_ZOOM == 8
HIGH_DETAIL_ZOOM == 12
GLOBAL_MAX_ARCS == 100
CITY_MAX_ARCS == 500
DETAIL_MAX_ARCS == 1000
HIGH_DETAIL_MAX_ARCS == 2000

\* The bounds argument: omitted, or four number values.
NoBounds ==
  [present |-> FALSE, north |-> Num(0), south |-> Num(0), east |-> Num(0), west |-> Num(0)]
BoundsOf(n, s, e, w) == [present |-> TRUE, north |-> n, south |-> s, east |-> e, west |-> w]
Bounds(n, s, e, w) == BoundsOf(Num(n), Num(s), Num(e), Num(w))

\* The bounds filter of the detailed view on one record with attributes.
InBounds(o, bounds) ==
  /\ Ge(o.latitude, bounds.south)
  /\ Le(o.latitude, bounds.north)
  /\ Ge(o.longitude, bounds.west)
  /\ Le(o.longitude, bounds.east)

NoCall == [fn |-> "none", objects |-> <<>>, maxArcs |-> 0]

\* The zoom parameter: an omitted zoom takes the default 0.
DefaultZoom(zoom) == IF zoom.t = "undefined" THEN Num(0) ELSE zoom

\* A selector that keeps its arcs in a variable of the module and returns
\* them again when the variable is not empty.
getArcsReusingLastArcs(objs, zoomArg, bounds) ==
  [threw |-> FALSE,
   arcs |-> IF retArcs # <<>> THEN retArcs
            ELSE clusterArcs(objs, Refs(objs), GLOBAL_MAX_ARCS),
   inner |-> NoCall]

\* getArcsByZoomLevel(objects, zoom, bounds): the arcs returned, whether the
\* call threw, and the clusterer call it made (function, records, cap).
getArcsByZoomLevel(objs, zoomArg, bounds) ==
  LET zoom == DefaultZoom(zoomArg) IN
  IF Len(objs) = 0 THEN [threw |-> FALSE, arcs |-> <<>>, inner |-> NoCall]
  ELSE IF LeNum(zoom, ZoomScale(GLOBAL_VIEW_ZOOM))
  THEN [threw |-> FALSE,
        arcs |-> clusterArcs(objs, Refs(objs), GLOBAL_MAX_ARCS),
        inner |-> [fn |-> "clusterArcs", objects |-> Refs(objs),
                   maxArcs |-> GLOBAL_MAX_ARCS]]
  ELSE IF LeNum(zoom, ZoomScale(CITY_VIEW_ZOOM))
  THEN [threw |-> FALSE,
        arcs |-> clusterArcsByCity(objs, Refs(objs), CITY_MAX_ARCS),
        inner |-> [fn |-> "clusterArcsByCity", objects |-> Refs(objs),
                   maxArcs |-> CITY_MAX_ARCS]]
  ELSE IF bounds.present /\ \E i \in 1..Len(objs) : ~objs[i].hasAttributes
  THEN [threw |-> TRUE, arcs |-> <<>>, inner |-> NoCall]
  ELSE LET objectsToProcess ==
             IF bounds.present
             THEN SelectSeq(Refs(objs), LAMBDA r : InBounds(objs[r], bounds))
             ELSE Refs(objs)
           maxArcs == IF GeNum(zoom, ZoomScale(HIGH_DETAIL_ZOOM))
                      THEN HIGH_DETAIL_MAX_ARCS ELSE DETAIL_MAX_ARCS
       IN  [threw |-> FALSE,
            arcs |-> clusterArcs(objs, objectsToProcess, maxArcs),
            inner |-> [fn |-> "clusterArcs", objects |-> objectsToProcess,
                       maxArcs |-> maxArcs]]

\* ------------------------------------------------------ filterArcsByBounds

DEFAULT_PADDING_DEGREES == 1

\* One degree in coordinate units (a unit is 1/300 of a degree).
Degrees(d) == 300 * d

\* A point [lng, lat] of an arc against the padded bounds.
PointInBounds(pos, padded) ==
  /\ Ge(pos[2], padded.south)
  /\ Le(pos[2], padded.north)
  /\ Ge(pos[1], padded.west)
  /\ Le(pos[1], padded.east)

\* filterArcsByBounds keeping an arc only when both endpoints are inside.
filterArcsBothEndpoints(arcs, bounds, padding) ==
  IF Len(arcs) = 0 \/ ~bounds.present THEN arcs
  ELSE LET paddedBounds == [north |-> Plus(bounds.north, padding),
                            south |-> Plus(bounds.south, 0 - padding),
                            east |-> Plus(bounds.east, padding),
                            west |-> Plus(bounds.west, 0 - padding)]
       IN  SelectSeq(arcs, LAMBDA arc :
             PointInBounds(arc.sourcePosition, paddedBounds)
               /\ PointInBounds(arc.targetPosition, paddedBounds))

\* filterArcsByBounds with the padding taken off the bounds instead of added.
filterArcsShrunkBounds(arcs, bounds, padding) ==
  IF Len(arcs) = 0 \/ ~bounds.present THEN arcs
  ELSE LET paddedBounds == [north |-> Plus(bounds.north, 0 - padding),
                            south |-> Plus(bounds.south, padding),
                            east |-> Plus(bounds.east, 0 - padding),
                            west |-> Plus(bounds.west, padding)]
       IN  SelectSeq(arcs, LAMBDA arc :
             PointInBounds(arc.sourcePosition, paddedBounds)
               \/ PointInBounds(arc.targetPosition, paddedBounds))

\* filterArcsByBounds(arcs, bounds, padding)
filterArcsByBounds(arcs, bounds, padding) ==
  IF Len(arcs) = 0 \/ ~bounds.present THEN arcs
  ELSE LET paddedBounds == [north |-> Plus(bounds.north, padding),
                            south |-> Plus(bounds.south, 0 - padding),
                            east |-> Plus(bounds.east, padding),
                            west |-> Plus(bounds.west, 0 - padding)]
       IN  SelectSeq(arcs, LAMBDA arc :
             PointInBounds(arc.sourcePosition, paddedBounds)
               \/ PointInBounds(arc.targetPosition, paddedBounds))

\* ------------------------------------------- the application at module load

MIN_REQUEST_INTERVAL == 1000

\* The smaller of two numbers.
Min(a, b) == IF a < b THEN a ELSE b

\* Date.now() when the modules are loaded: far from 0, the initial value of
\* lastRequestTime and of the cache timestamps.
StartTime == 1000000

\* lib/api.ts: lastRequestTime, apiCache; the invocations of
\* fetchWithRateLimit made; the number of upstream fetches issued and the
\* shortest time between two of them that follow each other (times of
\* MIN_REQUEST_INTERVAL and more are written as MIN_REQUEST_INTERVAL).
InitialClient ==
  [lastRequestTime |-> 0, apiCache |-> {}, calls |-> <<>>, issued |-> 0,
   shortest |-> MIN_REQUEST_INTERVAL]

\* The clients of the proxy, named by their x-forwarded-for header; the
\* name of a client that sends none is "unknown".
Clients == {"10.0.0.1", "unknown"}

\* requestCounts[clientIp] of a client that has no entry: the handler makes
\* one as soon as it counts a request of the client.
NoCount == [count |-> 0, resetTime |-> 0]

\* No request was answered yet.
NoAnswer ==
  [ip |-> "none", kind |-> "none", status |-> 0, retryAfter |-> 0,
   counted |-> FALSE, fetch |-> FALSE]

\* app/api/proxy/route.ts: lastRequestTime, requestCounts, responseCache;
\* the requests that were counted and await their timer or the upstream
\* (client, URL, stage, time of the timer: requests that agree in all four
\* are written once);
\* the shortest time between two upstream fetches that follow each other;
\* for each client the start of its 60-second window (the arrival of the
\* first request counted after the window before had ended), the requests
\* of the window and how many of them were forwarded; and the answer given
\* to the request that arrived last.
InitialProxy ==
  [lastRequestTime |-> 0,
   requestCounts |-> [ip \in Clients |-> NoCount],
   responseCache |-> {},
   requests |-> {},
   shortest |-> MIN_REQUEST_INTERVAL,
   window |-> [ip \in Clients |-> [start |-> 0, arrived |-> 0, forwarded |-> 0]],
   last |-> NoAnswer]

\* statsCache.data before the first fetch (null); fetched stats are written
\* as the time they were computed at.
NoStats == 0

\* app/api/stats/route.ts: statsCache; the GET calls that await fetchStats on
\* a cache miss (the `now` each has read); the number of
\* refreshStatsInBackground calls that await fetchStats; and how the refresh
\* that ended last has ended.
InitialStats ==
  [data |-> NoStats, timestamp |-> 0, isRefreshing |-> FALSE,
   misses |-> {}, background |-> 0, outcome |-> "none"]

\* No viewport yet (null), no error (null).
NoArea == "none"
NoError == ""

\* app/page.tsx: the state of the page component after its first render,
\* with lastBounds of the map view, the fetchObjects calls that await their
\* response, and the message of the failure that the last event handled.
\* A result of fetchMuseumObjects for one page of one viewport is written as
\* [bounds, page].
InitialPage ==
  [lastBounds |-> NoArea, currentBounds |-> NoArea, objects |-> <<>>,
   isLoading |-> FALSE, isRateLimited |-> FALSE, error |-> NoError,
   hasMore |-> TRUE, currentPage |-> 1, fetches |-> {}, failure |-> NoError]

WorldIdle ==
  /\ now = StartTime
  /\ client = InitialClient
  /\ proxy = InitialProxy
  /\ stats = InitialStats
  /\ page = InitialPage

\* ------------------------------------------------------- the state machine

\* The engine is called on the array objects, or on something that is not
\* an array (call.records); call is the last call made (operation and
\* arguments), retArcs / retCount / retAggs its result (the
\* two that the operation does not return are empty), threw whether it ended
\* in a TypeError, inner the clusterer call made by getArcsByZoomLevel.

DEFAULT_MAX_ARCS == 2000
DEFAULT_CITY_MAX_ARCS == 500

NoCallYet ==
  [op |-> "none", records |-> "array", maxArcs |-> 0, zoom |-> Num(0),
   bounds |-> NoBounds, padding |-> 0, arcs |-> <<>>]

\* A result kept by the caller of the engine: the call that returned it,
\* what it returned, and how many engine calls were made since (0, 1, or 2
\* for more).
NothingHeld ==
  [call |-> NoCallYet, arcs |-> <<>>, count |-> 0, aggs |-> <<>>,
   threw |-> FALSE, later |-> 0]

\* An engine whose clusters live in one array of the module that every call
\* empties: the arcs a former call returned are gone after the next call.
HeldAfterClearing(h) ==
  IF h = NothingHeld THEN h
  ELSE [h EXCEPT !.arcs = <<>>, !.later = IF @ < 2 THEN @ + 1 ELSE 2]

\* The kept result after one more engine call: the engine creates its
\* clusters, aggregates and arrays anew in every call and writes to nothing
\* that a former call returned.
HeldAfterCall(h) ==
  IF h = NothingHeld THEN h ELSE [h EXCEPT !.later = IF @ < 2 THEN @ + 1 ELSE 2]

\* The engine at rest: no call made, nothing kept.
EngineIdle ==
  /\ call = NoCallYet
  /\ retArcs = <<>>
  /\ retCount = 0
  /\ retAggs = <<>>
  /\ threw = FALSE
  /\ inner = NoCall
  /\ held = NothingHeld

InitWith(pool, maxLen) ==
  /\ objects \in ArraysOver(pool, maxLen)
  /\ EngineIdle
  /\ WorldIdle

CallClusterArcs(maxArcs) ==
  /\ call' = [NoCallYet EXCEPT !.op = "clusterArcs", !.maxArcs = maxArcs]
  /\ retArcs' = clusterArcs(objects, Refs(objects), maxArcs)
  /\ threw' = FALSE
  /\ inner' = NoCall
  /\ retCount' = 0
  /\ retAggs' = <<>>
  /\ held' = HeldAfterCall(held)
  /\ UNCHANGED <<objects, world>>

CallClusterArcsByCity(maxArcs) ==
  /\ call' = [NoCallYet EXCEPT !.op = "clusterArcsByCity", !.maxArcs = maxArcs]
  /\ retArcs' = clusterArcsByCity(objects, Refs(objects), maxArcs)
  /\ threw' = FALSE
  /\ inner' = NoCall
  /\ retCount' = 0
  /\ retAggs' = <<>>
  /\ held' = HeldAfterCall(held)
  /\ UNCHANGED <<objects, world>>

CallCountUniqueArcs ==
  /\ call' = [NoCallYet EXCEPT !.op = "countUniqueArcs"]
  /\ retCount' = countUniqueArcs(objects)
  /\ threw' = FALSE
  /\ inner' = NoCall
  /\ retArcs' = <<>>
  /\ retAggs' = <<>>
  /\ held' = HeldAfterCall(held)
  /\ UNCHANGED <<objects, world>>

CallAggregateByCountry ==
  LET r == aggregateByCountry(objects)
  IN  /\ call' = [NoCallYet EXCEPT !.op = "aggregateByCountry"]
      /\ retAggs' = r.aggs
      /\ threw' = r.threw
      /\ inner' = NoCall
      /\ retArcs' = <<>>
      /\ retCount' = 0
      /\ held' = HeldAfterCall(held)
      /\ UNCHANGED <<objects, world>>

CallGetArcsByZoomLevel(zoom, bounds) ==
  LET r == getArcsByZoomLevel(objects, zoom, bounds)
  IN  /\ call' = [NoCallYet EXCEPT !.op = "getArcsByZoomLevel",
                                   !.zoom = zoom, !.bounds = bounds]
      /\ retArcs' = r.arcs
      /\ threw' = r.threw
      /\ inner' = r.inner
      /\ retCount' = 0
  /\ retAggs' = <<>>
  /\ held' = HeldAfterCall(held)
  /\ UNCHANGED <<objects, world>>

\* filterArcsByBounds is applied to the arcs the last clustering returned.
CallFilterArcsByBounds(bounds, padding) ==
  /\ call.op \in {"clusterArcs", "filterArcsByBounds"}
  /\ LET arcs == IF call.op = "clusterArcs" THEN retArcs ELSE call.arcs
     IN  /\ call' = [NoCallYet EXCEPT !.op = "filterArcsByBounds", !.bounds = bounds,
                                      !.padding = padding, !.arcs = arcs]
         /\ retArcs' = filterArcsByBounds(arcs, bounds, padding)
  /\ threw' = FALSE
  /\ inner' = NoCall
  /\ retCount' = 0
  /\ retAggs' = <<>>
  /\ held' = HeldAfterCall(held)
  /\ UNCHANGED <<objects, world>>

\* What can be passed where the array of records is expected: nothing,
\* null, or a value that is neither falsy nor an array (an object, a number).
NonArrays == {"undefined", "null", "object"}

\* The five operations that take the array of records.
Operations ==
  {"countUniqueArcs", "aggregateByCountry", "clusterArcs", "clusterArcsByCity",
   "getArcsByZoomLevel"}

\* countUniqueArcs, aggregateByCountry and getArcsByZoomLevel return early on
\* a falsy argument (and two of them default an omitted one to []), and call
\* .filter / .forEach on any other value; clusterArcs and clusterArcsByCity
\* call objects.filter at once.  A call of a method that the value does not
\* have throws a TypeError.
ThrowsOnNonArray(op, records) ==
  IF op \in {"clusterArcs", "clusterArcsByCity"} THEN TRUE ELSE records = "object"

\* The class of the error the last call ended in: the engine has no throw
\* statement, every error is a TypeError raised on a property access.
ErrorClass == IF threw THEN "TypeError" ELSE "none"

\* An operation called on something that is not an array: it throws, or
\* returns its empty result (0, []).
CallOnNonArray(op, records) ==
  /\ call' = [NoCallYet EXCEPT !.op = op, !.records = records]
  /\ threw' = ThrowsOnNonArray(op, records)
  /\ retArcs' = <<>>
  /\ retCount' = 0
  /\ retAggs' = <<>>
  /\ inner' = NoCall
  /\ held' = HeldAfterCall(held)
  /\ UNCHANGED <<objects, world>>

\* ------------------------------------------------- clustering: the inputs

\* Records for the clustering functions (coordinates in units of 1/300
\* degree): two records that round to one key, the reverse route, a third
\* route, a record that does not move, one that moves by less than the
\* rounding, and one record for each way a coordinate can be unusable.
ClusterPool ==
  { Rec(Num(0), Num(0), Num(3), Num(0), "France", "Paris", "Berlin"),
    Rec(Num(1), Num(0), Num(3), Num(0), "France", "Paris", "Berlin"),
    Rec(Num(3), Num(0), Num(0), Num(0), "Germany", "Berlin", "Paris"),
    Rec(Num(6), Num(0), Num(0), Num(0), "Italy", "Rome", "Paris"),
    Rec(Num(0), Num(0), Num(0), Num(0), "France", "Paris", "Paris"),
    Rec(Num(0), Num(0), Num(1), Num(0), "France", "Paris", "Rome"),
    Rec(NaN, Num(0), Num(3), Num(0), "France", "Paris", "Berlin"),
    Rec(Inf, Num(0), Num(3), Num(0), "France", "Paris", "Berlin"),
    Rec(Num(0), Undef, Num(3), Num(0), "France", "Paris", "Berlin"),
    Rec(Num(0), Num(0), Num(3), Null, "France", "Paris", "Berlin"),
    NoAttributes }

\* The caps tried: binding ones, non-positive ones, and the default.
MaxArcsArgs(default) == {-1, 0, 1, 2, default}

InitCluster == InitWith(ClusterPool, MaxLen)

NextCluster ==
  \/ \E k \in MaxArcsArgs(DEFAULT_MAX_ARCS) : CallClusterArcs(k)
  \/ \E k \in MaxArcsArgs(DEFAULT_CITY_MAX_ARCS) : CallClusterArcsByCity(k)
  \/ CallCountUniqueArcs

SpecCluster == InitCluster /\ [][NextCluster]_vars

\* The same inputs without the infinite coordinate.
FinitePool == {o \in ClusterPool : o.longitude.t # "Infinity"}

InitFinite == InitWith(FinitePool, MaxLen)

SpecFinite == InitFinite /\ [][NextCluster]_vars

\* Routes for the size cap: two records of one route, two other routes, a
\* fourth one that moves by less than the rounding, a record that stays.
CapPool ==
  { Rec(Num(0), Num(0), Num(3), Num(0), "France", "Paris", "Berlin"),
    Rec(Num(1), Num(0), Num(3), Num(0), "France", "Paris", "Berlin"),
    Rec(Num(3), Num(0), Num(0), Num(0), "Germany", "Berlin", "Paris"),
    Rec(Num(6), Num(0), Num(0), Num(0), "Italy", "Rome", "Paris"),
    Rec(Num(0), Num(0), Num(1), Num(0), "France", "Paris", "Rome"),
    Rec(Num(0), Num(0), Num(0), Num(0), "France", "Paris", "Paris") }

\* The caps tried on them: 1 .. 3 bind, the default does not.
CapArgs(default) == {1, 2, 3, default}

InitCap == InitWith(CapPool, MaxCapLen)

NextCap ==
  \/ \E k \in CapArgs(DEFAULT_MAX_ARCS) : CallClusterArcs(k)
  \/ \E k \in CapArgs(DEFAULT_CITY_MAX_ARCS) : CallClusterArcsByCity(k)

SpecCap == InitCap /\ [][NextCap]_vars

\* ------------------------------------------------- clustering: the claims

\* Section 3 of the specification: all four coordinates are finite numbers.
ArcEligible(o) ==
  /\ o.hasAttributes
  /\ o.longitude.t = "number" /\ o.latitude.t = "number"
  /\ o.institution_longitude.t = "number" /\ o.institution_latitude.t = "number"

RECURSIVE SumCounts(_)
SumCounts(arcs) == IF arcs = <<>> THEN 0 ELSE Head(arcs).count + SumCounts(Tail(arcs))

\* The records that are members of some arc of an array of arcs.
Members(arcs) ==
  {arcs[i].objects[j] : <<i, j>> \in
     {p \in (1..Len(arcs)) \X (1..Len(objects)) : p[2] <= Len(arcs[p[1]].objects)}}

EligibleRefs == {i \in 1..Len(objects) : ArcEligible(objects[i])}

\* A cap that cannot bind: at least as many as there are records.
CapDoesNotBind == call.maxArcs >= Len(objects)

\* C1 (as claimed): object-level clusterArcs with a cap that does not bind
\* returns arcs whose counts sum to the number of arc-eligible records minus
\* the number of arc-eligible records whose origin and destination are equal
\* after rounding to 2 decimals.
C1_ClusterCountConservation ==
  (call.op = "clusterArcs" /\ CapDoesNotBind) =>
    SumCounts(retArcs) =
      Cardinality(EligibleRefs)
        - Cardinality({i \in EligibleRefs : SameRounded(objects[i])})

\* C2 (as claimed): no arc returned by object-level clusterArcs has a member
\* whose origin and destination are identical after rounding to 2 decimals.
C2_NoDisplacementExclusion ==
  call.op = "clusterArcs" =>
    \A i \in Members(retArcs) : ~SameRounded(objects[i])

\* C10 (as claimed): every member of an arc returned by clusterArcs or
\* clusterArcsByCity has four present, finite coordinates, and countUniqueArcs
\* counts no key of a record that has not.
C10_ArcEligibility ==
  /\ call.op \in {"clusterArcs", "clusterArcsByCity"} =>
       \A i \in Members(retArcs) : ArcEligible(objects[i])
  /\ call.op = "countUniqueArcs" =>
       retCount = Cardinality({ObjectKey(objects[i]) :
                     i \in {j \in EligibleRefs : ~SameRounded(objects[j])}})

\* The complete list of clusters of the last clustering call, in the order
\* in which the clusters were first met.
AllClusters ==
  IF call.op = "clusterArcs"
  THEN clusterArcs(objects, Refs(objects), Len(objects))
  ELSE clusterArcsByCity(objects, Refs(objects), Len(objects))

\* The number of clusters that come before cluster i when the clusters are
\* ranked by count descending and, for equal counts, by first encounter.
RankOf(all, i) ==
  Cardinality({j \in 1..Len(all) :
                 \/ all[j].count > all[i].count
                 \/ (all[j].count = all[i].count /\ j < i)})

\* C3: with a cap k > 0, clusterArcs and clusterArcsByCity return at most k
\* arcs; when more than k clusters exist the r-th returned arc is the cluster
\* of rank r (count descending, ties by first encounter), for r = 1..k.
C3_CapMonotonicity ==
  (call.op \in {"clusterArcs", "clusterArcsByCity"} /\ call.maxArcs > 0) =>
    /\ Len(retArcs) <= call.maxArcs
    /\ Len(AllClusters) > call.maxArcs =>
         /\ Len(retArcs) = call.maxArcs
         /\ \A r \in 1..call.maxArcs :
              \E i \in 1..Len(AllClusters) :
                 /\ RankOf(AllClusters, i) = r - 1
                 /\ retArcs[r] = AllClusters[i]
    /\ Len(AllClusters) <= call.maxArcs => retArcs = AllClusters

\* C3 witness: a cap of 2 binds on three clusters; the heaviest cluster, met
\* last, is returned first, followed by the first met of the two that tie.
C3_Witness ==
  /\ call.op \in {"clusterArcs", "clusterArcsByCity"}
  /\ call.maxArcs = 2
  /\ Len(AllClusters) = 3
  /\ AllClusters[1].count = 1 /\ AllClusters[2].count = 1 /\ AllClusters[3].count = 2
  /\ retArcs = <<AllClusters[3], AllClusters[1]>>

\* C16 (as claimed): clusterArcs and clusterArcsByCity called with
\* maxArcs <= 0 return the complete list of clusters, as with a cap larger
\* than the number of clusters.
C16_NonPositiveCapIsNoCap ==
  (call.op \in {"clusterArcs", "clusterArcsByCity"} /\ call.maxArcs <= 0) =>
    retArcs = AllClusters

\* C25 (as claimed): countUniqueArcs returns the number of arcs that
\* object-level clusterArcs returns for the same array when the cap does
\* not bind.
C25_CountAgreesWithClusterer ==
  /\ call.op = "countUniqueArcs" =>
       retCount = Len(clusterArcs(objects, Refs(objects), DEFAULT_MAX_ARCS))
  /\ (call.op = "clusterArcs" /\ CapDoesNotBind) =>
       Len(retArcs) = countUniqueArcs(objects)

\* A sequence of references is a subsequence of the input array in input
\* order: strictly increasing positions of objects.
IsSubsequence(refs) ==
  /\ \A j \in 1..Len(refs) : refs[j] \in 1..Len(objects)
  /\ \A j, k \in 1..Len(refs) : j < k => refs[j] < refs[k]

\* The list kept by the validity filter of the last clustering call.
Filtered(refs) ==
  IF call.op = "clusterArcsByCity" THEN ValidCityObjects(objects, refs)
  ELSE ValidObjects(objects, refs)

\* C21: the validity filter of clusterArcs, clusterArcsByCity and
\* countUniqueArcs keeps a subsequence of the input in input order, which
\* holds every member of the returned arcs, and applied to its own output
\* it returns that output unchanged.
C21_FilterIdempotence ==
  call.op \in {"clusterArcs", "clusterArcsByCity", "countUniqueArcs"} =>
    LET kept == Filtered(Refs(objects))
    IN  /\ IsSubsequence(kept)
        /\ Filtered(kept) = kept
        /\ \A i \in Members(retArcs) : \E j \in 1..Len(kept) : kept[j] = i

\* C21 witness: clusterArcs ran on an array of which the filter keeps two
\* records and drops one that stands between them.
C21_Witness ==
  /\ call.op = "clusterArcs"
  /\ Len(objects) = 3
  /\ Filtered(Refs(objects)) = <<1, 3>>
  /\ Filtered(<<1, 3>>) = <<1, 3>>

\* --------------------------------------------------- zoom bands: the inputs

\* The viewport used: latitudes 0..3 and longitudes 0..3 (units of 1/300
\* degree), which contains the point (0, 0).
View == Bounds(3, 0, 3, 0)

\* Records whose origin is inside the viewport, on its corner, outside it on
\* each side, or null, and a record without attributes.  Every route has its
\* own key and its own pair of cities.
ZoomPool ==
  { Rec(Num(1), Num(1), Num(9), Num(9), "France", "Paris", "Berlin"),
    Rec(Num(3), Num(3), Num(9), Num(9), "France", "Lyon", "Berlin"),
    Rec(Num(6), Num(1), Num(9), Num(9), "Italy", "Rome", "Berlin"),
    Rec(Num(1), Num(6), Num(9), Num(9), "Spain", "Madrid", "Berlin"),
    Rec(Num(-3), Num(1), Num(9), Num(9), "Peru", "Lima", "Berlin"),
    Rec(Num(1), Num(-3), Num(9), Num(9), "Chile", "Arica", "Berlin"),
    Rec(Null, Null, Num(9), Num(9), "Ghana", "Accra", "Berlin"),
    NoAttributes }

\* Zoom levels 4, 4.5, 8, 8.5, 11.5 and 12, in halves.
Zooms == {Num(z) : z \in {8, 9, 16, 17, 23, 24}}

InitZoom == InitWith(ZoomPool, MaxLen)

NextZoom == \E zoom \in Zooms, bounds \in {NoBounds, View} :
              CallGetArcsByZoomLevel(zoom, bounds)

SpecZoom == InitZoom /\ [][NextZoom]_vars

\* --------------------------------------------------- zoom bands: the claims

\* The claims' bounds test: the origin is a point and lies in the rectangle,
\* edges included.
OriginWithin(o, bounds) ==
  /\ o.hasAttributes
  /\ o.latitude.t = "number" /\ o.longitude.t = "number"
  /\ bounds.south.v <= o.latitude.v /\ o.latitude.v <= bounds.north.v
  /\ bounds.west.v <= o.longitude.v /\ o.longitude.v <= bounds.east.v

\* The records of objects whose origin lies within the bounds, in input order.
WithinRefs(bounds) == SelectSeq(Refs(objects), LAMBDA r : OriginWithin(objects[r], bounds))

\* C4 (as claimed): for a non-empty array, getArcsByZoomLevel returns
\* clusterArcs(objects, 100) when zoom <= 4, clusterArcsByCity(objects, 500)
\* when 4 < zoom <= 8, and clusterArcs of the records within bounds (all of
\* them without bounds) with cap 2000 when zoom >= 12 and 1000 otherwise.
C4_ZoomBandSelection ==
  (call.op = "getArcsByZoomLevel" /\ Len(objects) > 0) =>
    /\ ~threw
    /\ call.zoom.v <= 2 * 4 =>
         /\ inner = [fn |-> "clusterArcs", objects |-> Refs(objects), maxArcs |-> 100]
         /\ retArcs = clusterArcs(objects, Refs(objects), 100)
    /\ (2 * 4 < call.zoom.v /\ call.zoom.v <= 2 * 8) =>
         /\ inner = [fn |-> "clusterArcsByCity", objects |-> Refs(objects), maxArcs |-> 500]
         /\ retArcs = clusterArcsByCity(objects, Refs(objects), 500)
    /\ call.zoom.v > 2 * 8 =>
         LET cap == IF call.zoom.v >= 2 * 12 THEN 2000 ELSE 1000
             kept == IF call.bounds.present THEN WithinRefs(call.bounds)
                     ELSE Refs(objects)
         IN  /\ inner.fn = "clusterArcs" /\ inner.maxArcs = cap
             /\ retArcs = clusterArcs(objects, kept, cap)

\* C5 (as claimed): at zoom > 8 with bounds, the records passed to the
\* clusterer are exactly those whose origin lies within the bounds, no
\* member of a returned arc has its origin outside them, and the cap is
\* applied to the clusters of the filtered records.
C5_BoundsPreFilter ==
  (call.op = "getArcsByZoomLevel" /\ Len(objects) > 0
     /\ call.zoom.v > 2 * 8 /\ call.bounds.present) =>
    /\ inner.fn = "clusterArcs"
    /\ inner.objects = WithinRefs(call.bounds)
    /\ \A i \in Members(retArcs) : OriginWithin(objects[i], call.bounds)
    /\ retArcs = CapArcs(ObjectClusters(<<>>, objects,
                           SelectSeq(WithinRefs(call.bounds),
                                     LAMBDA r : ValidCoordinates(objects[r]))),
                         inner.maxArcs)

\* ------------------------------------------------ bounds filter: the inputs

\* The viewport of the filter: latitudes -1..1 degree, longitudes 0..2 degrees.
Box == Bounds(Degrees(1), Degrees(-1), Degrees(2), Degrees(0))

\* Routes between a far point and a point strictly inside the viewport, on
\* its edge, in the one-degree margin on each side, on the edge of the
\* margin, or outside both; in one route the inner point is the target, and
\* in one the source has an infinite longitude.
FilterPool ==
  { Rec(Num(300), Num(0), Num(3000), Num(3000), "", "", ""),
    Rec(Num(100), Num(0), Num(3000), Num(3000), "", "", ""),
    Rec(Num(3000), Num(2000), Num(300), Num(0), "", "", ""),
    Rec(Num(600), Num(0), Num(3000), Num(3000), "", "", ""),
    Rec(Num(800), Num(0), Num(3000), Num(3000), "", "", ""),
    Rec(Num(300), Num(500), Num(3000), Num(3000), "", "", ""),
    Rec(Num(-200), Num(0), Num(3000), Num(3000), "", "", ""),
    Rec(Num(300), Num(-500), Num(3000), Num(3000), "", "", ""),
    Rec(Num(900), Num(0), Num(3000), Num(3000), "", "", ""),
    Rec(Num(1500), Num(0), Num(3000), Num(3000), "", "", ""),
    Rec(Inf, Num(0), Num(300), Num(0), "", "", "") }

\* The paddings tried: the default, none, a small one and a negative one.
Paddings == {Degrees(DEFAULT_PADDING_DEGREES), 0, 100, 0 - Degrees(1)}

InitFilter == InitWith(FilterPool, MaxLen)

NextFilter ==
  \/ CallClusterArcs(DEFAULT_MAX_ARCS)
  \/ \E padding \in Paddings : CallFilterArcsByBounds(Box, padding)

SpecFilter == InitFilter /\ [][NextFilter]_vars

\* ------------------------------------------------ bounds filter: the claims

\* A point [lng, lat] lies within the bounds widened by margin on all sides.
WithinWidened(pos, bounds, margin) ==
  /\ pos[1].t = "number" /\ pos[2].t = "number"
  /\ bounds.south.v - margin <= pos[2].v /\ pos[2].v <= bounds.north.v + margin
  /\ bounds.west.v - margin <= pos[1].v /\ pos[1].v <= bounds.east.v + margin

\* A point [lng, lat] lies strictly inside the bounds.
StrictlyInside(pos, bounds) ==
  /\ pos[1].t = "number" /\ pos[2].t = "number"
  /\ bounds.south.v < pos[2].v /\ pos[2].v < bounds.north.v
  /\ bounds.west.v < pos[1].v /\ pos[1].v < bounds.east.v

\* C6: filterArcsByBounds returns, in input order, exactly the arcs whose
\* source or target lies within the bounds widened by padding on all sides.
C6_FilterArcsByBounds ==
  call.op = "filterArcsByBounds" =>
    retArcs = SelectSeq(call.arcs, LAMBDA arc :
                \/ WithinWidened(arc.sourcePosition, call.bounds, call.padding)
                \/ WithinWidened(arc.targetPosition, call.bounds, call.padding))

\* C6 witness: the default padding keeps an arc with only its source inside
\* and an arc with only its target inside, and drops an arc with neither.
C6_Witness ==
  /\ call.op = "filterArcsByBounds"
  /\ call.padding = Degrees(1)
  /\ Len(call.arcs) = 3 /\ Len(retArcs) = 2
  /\ \E i \in 1..2 :
       /\ WithinWidened(retArcs[i].sourcePosition, call.bounds, call.padding)
       /\ ~WithinWidened(retArcs[i].targetPosition, call.bounds, call.padding)
  /\ \E i \in 1..2 :
       /\ ~WithinWidened(retArcs[i].sourcePosition, call.bounds, call.padding)
       /\ WithinWidened(retArcs[i].targetPosition, call.bounds, call.padding)

\* An arc has an endpoint strictly inside the bounds of the last call.
EndpointInside(arc) ==
  \/ StrictlyInside(arc.sourcePosition, call.bounds)
  \/ StrictlyInside(arc.targetPosition, call.bounds)

Kept(arc) == \E i \in 1..Len(retArcs) : retArcs[i] = arc

\* C7 (as claimed): for every padding, no arc with its source or target
\* strictly inside the unpadded bounds is dropped.
C7_BoundsInclusivityAnyPadding ==
  call.op = "filterArcsByBounds" =>
    \A i \in 1..Len(call.arcs) : EndpointInside(call.arcs[i]) => Kept(call.arcs[i])

\* C7 (amended): for every padding >= 0, no arc with its source or target
\* strictly inside the unpadded bounds is dropped.
C7_BoundsInclusivity ==
  (call.op = "filterArcsByBounds" /\ call.padding >= 0) =>
    \A i \in 1..Len(call.arcs) : EndpointInside(call.arcs[i]) => Kept(call.arcs[i])

\* C7 witness: with a padding >= 0 an arc with an endpoint strictly inside
\* is kept while another arc of the same call is dropped.
C7_Witness ==
  /\ call.op = "filterArcsByBounds" /\ call.padding >= 0
  /\ \E i \in 1..Len(call.arcs) : EndpointInside(call.arcs[i]) /\ Kept(call.arcs[i])
  /\ Len(retArcs) < Len(call.arcs)

\* --------------------------------------------- country aggregates: inputs

\* Records with a country label, without one, and with the label "Unknown";
\* origins that are ordinary points, on the zero meridian, opposite to the
\* first one (their mean is the point (0, 0)), or not a number; a record
\* that is not arc-eligible; a record without attributes.
CountryPool ==
  { Rec(Num(2), Num(4), Num(9), Num(9), "France", "Paris", "Berlin"),
    Rec(Num(4), Num(8), Num(9), Num(9), "France", "Lyon", "Berlin"),
    Rec(Num(-2), Num(-4), Num(9), Num(9), "France", "Paris", "Berlin"),
    Rec(Num(0), Num(4), Num(9), Num(9), "France", "Caen", "Berlin"),
    Rec(Num(2), NaN, Num(9), Num(9), "France", "Paris", "Berlin"),
    Rec(Num(6), Num(2), Undef, Undef, "Germany", "Bonn", ""),
    Rec(Num(2), Num(2), Num(9), Num(9), NoLabel, "Paris", "Berlin"),
    Rec(Num(2), Num(2), Num(9), Num(9), "Unknown", "Paris", "Berlin"),
    NoAttributes }

InitCountry == InitWith(CountryPool, MaxLen)

NextCountry == CallAggregateByCountry

SpecCountry == InitCountry /\ [][NextCountry]_vars

\* --------------------------------------------- country aggregates: claims

\* The records of objects that carry this country label, in input order.
WithLabel(label) ==
  SelectSeq(Refs(objects), LAMBDA r : objects[r].country_en = label)

\* C8 (as claimed): aggregateByCountry returns exactly one aggregate for each
\* distinct non-empty country label of the input; its members are the input
\* records with that label and its count is their number; a record without a
\* country label is a member of no aggregate.
C8_CountryPartition ==
  call.op = "aggregateByCountry" =>
    /\ ~threw
    /\ {retAggs[i].country : i \in 1..Len(retAggs)}
         = {objects[i].country_en : i \in 1..Len(objects)} \ {NoLabel}
    /\ \A i, j \in 1..Len(retAggs) : retAggs[i].country = retAggs[j].country => i = j
    /\ \A i \in 1..Len(retAggs) :
         /\ retAggs[i].objects = WithLabel(retAggs[i].country)
         /\ retAggs[i].count = Len(retAggs[i].objects)
    /\ \A i \in 1..Len(retAggs) : \A j \in 1..Len(retAggs[i].objects) :
         objects[retAggs[i].objects[j]].country_en # NoLabel

\* The claimed centroid fold over the records of a bucket: the first record
\* seeds it, each later one replaces it by (centroid + point) / 2.
RECURSIVE FoldCentroid(_, _)
FoldCentroid(centroid, refs) ==
  IF refs = <<>> THEN centroid
  ELSE FoldCentroid(
         [latitude |-> (centroid.latitude + objects[Head(refs)].latitude.v * Fine) \div 2,
          longitude |-> (centroid.longitude + objects[Head(refs)].longitude.v * Fine) \div 2],
         Tail(refs))

\* A record has finite origin coordinates (zero included).
FiniteOrigin(o) == o.latitude.t = "number" /\ o.longitude.t = "number"

\* C9 (as claimed): the centroid of every aggregate with a record that has
\* finite origin coordinates is the fold over those records in input order.
C9_RunningAverageCentroid ==
  call.op = "aggregateByCountry" =>
    \A i \in 1..Len(retAggs) :
      LET pts == SelectSeq(retAggs[i].objects, LAMBDA r : FiniteOrigin(objects[r]))
      IN  pts # <<>> =>
            /\ retAggs[i].latitude.t = "number" /\ retAggs[i].longitude.t = "number"
            /\ [latitude |-> retAggs[i].latitude.v, longitude |-> retAggs[i].longitude.v]
                 = FoldCentroid([latitude |-> objects[Head(pts)].latitude.v * Fine,
                                 longitude |-> objects[Head(pts)].longitude.v * Fine],
                                Tail(pts))

\* ------------------------------------------------ city clusters: the inputs

\* Records for the two clustering levels side by side: three records of the
\* route Paris -> Berlin (two of them round to one object key), the reverse
\* route, a route whose two cities lie on the same spot, two routes whose
\* city names contain the separator of the city key, a city named "Unknown",
\* a record without a destination city, one without an origin city, one with
\* twice the same city, one with an unusable coordinate, one without attributes.
CityPool ==
  { Rec(Num(0), Num(0), Num(3), Num(0), "France", "Paris", "Berlin"),
    Rec(Num(1), Num(0), Num(3), Num(0), "France", "Paris", "Berlin"),
    Rec(Num(6), Num(0), Num(3), Num(0), "France", "Paris", "Berlin"),
    Rec(Num(3), Num(0), Num(0), Num(0), "Germany", "Berlin", "Paris"),
    Rec(Num(9), Num(9), Num(9), Num(9), "Italy", "Rome", "Vatican"),
    Rec(Num(0), Num(0), Num(6), Num(0), "", "A-to-B", "C"),
    Rec(Num(0), Num(0), Num(9), Num(0), "", "A", "B-to-C"),
    Rec(Num(0), Num(0), Num(3), Num(3), "", "Unknown", "Berlin"),
    Rec(Num(0), Num(3), Num(3), Num(0), "France", "Paris", NoLabel),
    Rec(Num(3), Num(3), Num(3), Num(0), "", NoLabel, "Berlin"),
    Rec(Num(0), Num(0), Num(3), Num(6), "France", "Paris", "Paris"),
    Rec(NaN, Num(0), Num(3), Num(0), "France", "Paris", "Berlin"),
    NoAttributes }

\* The caps tried: one that binds and the default.
CityArgs(default) == {1, default}

\* Zoom levels 4, 8 and 8.5 (in halves): one per band.
CityZooms == {Num(z) : z \in {8, 16, 17}}

InitCity == InitWith(CityPool, MaxLen)

NextCity ==
  \/ \E k \in CityArgs(DEFAULT_MAX_ARCS) : CallClusterArcs(k)
  \/ \E k \in CityArgs(DEFAULT_CITY_MAX_ARCS) : CallClusterArcsByCity(k)
  \/ \E zoom \in CityZooms : CallGetArcsByZoomLevel(zoom, NoBounds)

SpecCity == InitCity /\ [][NextCity]_vars

\* ------------------------------------------------ city clusters: the claims

\* The arcs of the last result that list record i among their members.
ArcsHolding(i) ==
  {a \in 1..Len(retArcs) : \E j \in 1..Len(retArcs[a].objects) : retArcs[a].objects[j] = i}

\* The number of times record i is listed among the members of an arc.
TimesListed(arc, i) == Cardinality({j \in 1..Len(arc.objects) : arc.objects[j] = i})

\* A record is displaced: its origin and its destination are different points.
Displaced(o) ==
  ~(o.longitude = o.institution_longitude /\ o.latitude = o.institution_latitude)

\* A record has an origin city, a destination city, and the two differ.
TwoCities(o) ==
  /\ o.city_en # NoLabel /\ o.institution_city_en # NoLabel
  /\ o.city_en # o.institution_city_en

\* The records that the specification lets contribute to the last clustering:
\* arc-eligible and displaced at object level, arc-eligible with two
\* different cities at city level.
Contributing(o) ==
  IF call.op = "clusterArcs" THEN ArcEligible(o) /\ Displaced(o)
  ELSE ArcEligible(o) /\ TwoCities(o)

\* The key of a record at the level of the last clustering.
KeyOf(o) == IF call.op = "clusterArcs" THEN ObjectKey(o) ELSE CityKey(o)

\* C11 (as claimed): in a result of clusterArcs or clusterArcsByCity whose
\* cap does not bind, no two arcs share an id; every member of an arc, and
\* every record that is eligible and displaced, is a member of exactly one
\* arc, once, and that arc's id is the record's key; the count of every arc
\* is the number of its members and at least 1.
C11_ArcPartition ==
  (call.op \in {"clusterArcs", "clusterArcsByCity"} /\ CapDoesNotBind) =>
    /\ \A a, b \in 1..Len(retArcs) : retArcs[a].id = retArcs[b].id => a = b
    /\ \A i \in 1..Len(objects) :
         (Contributing(objects[i]) \/ ArcsHolding(i) # {}) =>
           \E a \in 1..Len(retArcs) :
             /\ ArcsHolding(i) = {a}
             /\ TimesListed(retArcs[a], i) = 1
             /\ retArcs[a].id = KeyOf(objects[i])
    /\ \A a \in 1..Len(retArcs) :
         retArcs[a].count = Len(retArcs[a].objects) /\ retArcs[a].count >= 1

\* The structure of a result alone: ids are unique, every member is listed
\* once, in the arc of its key, and counts are the numbers of members.
PartitionOfMembers ==
  call.op \in {"clusterArcs", "clusterArcsByCity"} =>
    /\ \A a, b \in 1..Len(retArcs) : retArcs[a].id = retArcs[b].id => a = b
    /\ \A i \in Members(retArcs) :
         \E a \in 1..Len(retArcs) :
           /\ ArcsHolding(i) = {a}
           /\ TimesListed(retArcs[a], i) = 1
           /\ retArcs[a].id = KeyOf(objects[i])
    /\ \A a \in 1..Len(retArcs) :
         retArcs[a].count = Len(retArcs[a].objects) /\ retArcs[a].count >= 1

\* The last result was clustered by city (directly or through the zoom bands).
ByCity == call.op = "clusterArcsByCity" \/ inner.fn = "clusterArcsByCity"

\* Two records have the same ordered pair (origin city, destination city).
SameCities(o, p) ==
  o.city_en = p.city_en /\ o.institution_city_en = p.institution_city_en

\* C12 (as claimed): two members of arcs returned by clusterArcsByCity are
\* members of the same arc if and only if they have the same origin city and
\* the same destination city, and arcs of different pairs have different ids.
C12_CityKeyOrderedPair ==
  ByCity =>
    /\ \A i, j \in Members(retArcs) :
         (ArcsHolding(i) \cap ArcsHolding(j) # {})
           <=> SameCities(objects[i], objects[j])
    /\ \A a, b \in 1..Len(retArcs) :
         ~SameCities(objects[retArcs[a].objects[1]], objects[retArcs[b].objects[1]])
           => retArcs[a].id # retArcs[b].id

\* C13 (as claimed): no member of an arc returned by clusterArcsByCity lacks
\* its origin city or its destination city or has twice the same city; when
\* the cap does not bind, every arc-eligible record with two different
\* non-empty city labels is a member of a returned arc.
C13_CityExclusion ==
  call.op = "clusterArcsByCity" =>
    /\ \A i \in Members(retArcs) : TwoCities(objects[i])
    /\ CapDoesNotBind =>
         \A i \in 1..Len(objects) :
           (ArcEligible(objects[i]) /\ TwoCities(objects[i])) => i \in Members(retArcs)

\* C14 (as claimed): no arc returned by clusterArcs, clusterArcsByCity or
\* getArcsByZoomLevel has a sourcePosition equal to its targetPosition.
C14_NoDegenerateArc ==
  call.op \in {"clusterArcs", "clusterArcsByCity", "getArcsByZoomLevel"} =>
    \A a \in 1..Len(retArcs) : retArcs[a].sourcePosition # retArcs[a].targetPosition

\* C15: the endpoints of every arc returned by clusterArcs, clusterArcsByCity
\* or getArcsByZoomLevel are the unrounded origin and destination of its
\* first member, and its members are the records of its key in input order.
C15_RepresentativeEndpoints ==
  call.op \in {"clusterArcs", "clusterArcsByCity", "getArcsByZoomLevel"} =>
    \A a \in 1..Len(retArcs) :
      LET arc == retArcs[a]
          first == objects[arc.objects[1]]
      IN  /\ arc.sourcePosition = <<first.longitude, first.latitude>>
          /\ arc.targetPosition =
               <<first.institution_longitude, first.institution_latitude>>
          /\ \A j, k \in 1..Len(arc.objects) : j < k => arc.objects[j] < arc.objects[k]
          /\ arc.objects = SelectSeq(Refs(objects), LAMBDA r : a \in ArcsHolding(r))

\* C15 witness: an arc of two members whose origins differ carries the
\* origin of the first one.
C15_Witness ==
  /\ call.op \in {"clusterArcs", "clusterArcsByCity"}
  /\ \E a \in 1..Len(retArcs) :
       /\ Len(retArcs[a].objects) >= 2
       /\ retArcs[a].sourcePosition[1] = objects[retArcs[a].objects[1]].longitude
       /\ retArcs[a].sourcePosition[1] # objects[retArcs[a].objects[2]].longitude

\* ---------------------------------------------- malformed input: the inputs

\* One well-formed record and one record for each way of being malformed:
\* no attributes, no origin coordinates, a non-numeric coordinate, an
\* infinite one, no destination coordinates, no labels.
EnginePool ==
  { Rec(Num(1), Num(1), Num(9), Num(9), "France", "Paris", "Berlin"),
    NoAttributes,
    Rec(Undef, Undef, Num(9), Num(9), "France", "Paris", "Berlin"),
    Rec(NaN, Num(1), Num(9), Num(9), "France", "Paris", "Berlin"),
    Rec(Inf, Num(1), Num(9), Num(9), "France", "Paris", "Berlin"),
    Rec(Num(1), Num(1), Null, Null, "France", "Paris", "Berlin"),
    Rec(Num(2), Num(2), Num(9), Num(9), NoLabel, NoLabel, NoLabel) }

\* Zoom levels 4, 8, 8.5 and 12 (in halves), no zoom, NaN and Infinity.
EngineZooms == {Num(8), Num(16), Num(17), Num(24), Undef, NaN, Inf}

\* No bounds, the viewport 0..3 x 0..3, and the same viewport with a NaN
\* and with an infinite northern edge.
EngineBounds ==
  {NoBounds, View, BoundsOf(NaN, Num(0), Num(3), Num(0)),
   BoundsOf(Inf, Num(0), Num(3), Num(0))}

InitEngine == InitWith(EnginePool, MaxLen)

NextEngine ==
  \/ CallCountUniqueArcs
  \/ CallAggregateByCountry
  \/ CallClusterArcs(DEFAULT_MAX_ARCS)
  \/ CallClusterArcsByCity(DEFAULT_CITY_MAX_ARCS)
  \/ \E zoom \in EngineZooms, bounds \in EngineBounds :
       CallGetArcsByZoomLevel(zoom, bounds)
  \/ \E op \in Operations, records \in NonArrays : CallOnNonArray(op, records)

SpecEngine == InitEngine /\ [][NextEngine]_vars

\* ---------------------------------------------- malformed input: the claims

\* The last call was made on the array objects.
OnArray == call.op \in Operations /\ call.records = "array"

\* The records that are members of some country aggregate.
AggMembers ==
  {retAggs[i].objects[j] : <<i, j>> \in
     {p \in (1..Len(retAggs)) \X (1..Len(objects)) : p[2] <= Len(retAggs[p[1]].objects)}}

\* C17 (as claimed): on an array holding records without attributes, with
\* missing or non-numeric coordinates or without labels, no engine operation
\* throws; the members of the returned arcs have attributes and four present,
\* numeric coordinates, and the members of the aggregates have a country.
C17_NeverThrows ==
  OnArray =>
    /\ ~threw
    /\ \A i \in Members(retArcs) : ValidCoordinates(objects[i])
    /\ \A i \in AggMembers :
         objects[i].hasAttributes /\ objects[i].country_en # NoLabel

\* A number value that is NaN or not finite.
NonFinite(x) == x.t \in {"NaN", "Infinity"}

\* C18 (as claimed): getArcsByZoomLevel does not throw on a NaN or
\* non-finite zoom or bounds component; with such a bounds component it
\* does what it does without bounds, and with such a zoom what it does at
\* the default zoom.
C18_NonFiniteView ==
  (OnArray /\ call.op = "getArcsByZoomLevel") =>
    /\ (NonFinite(call.bounds.north) \/ NonFinite(call.bounds.south)
          \/ NonFinite(call.bounds.east) \/ NonFinite(call.bounds.west)) =>
         LET r == getArcsByZoomLevel(objects, call.zoom, NoBounds)
         IN  ~threw /\ retArcs = r.arcs /\ inner = r.inner
    /\ NonFinite(call.zoom) =>
         LET r == getArcsByZoomLevel(objects, Undef, call.bounds)
         IN  ~threw /\ retArcs = r.arcs /\ inner = r.inner

\* C19 (as claimed): every engine operation called with something that is
\* not an array ends in an InvalidArgument-class error.
C19_NonArrayFailsFast ==
  (call.op \in Operations /\ call.records # "array") =>
    ErrorClass = "InvalidArgument"

\* Every record of objects is arc-ineligible.
AllIneligible == \A i \in 1..Len(objects) : ~ArcEligible(objects[i])

\* C20 (as claimed): getArcsByZoomLevel returns [] for an empty array
\* without going through a zoom band; clusterArcs, clusterArcsByCity and
\* getArcsByZoomLevel return [] and countUniqueArcs returns 0 when every
\* record is arc-ineligible; none of these calls throws.
C20_SilentZeroResults ==
  OnArray =>
    /\ (call.op = "getArcsByZoomLevel" /\ Len(objects) = 0) =>
         ~threw /\ retArcs = <<>> /\ inner = NoCall
    /\ (call.op \in {"clusterArcs", "clusterArcsByCity", "getArcsByZoomLevel"}
          /\ AllIneligible) =>
         ~threw /\ retArcs = <<>>
    /\ (call.op = "countUniqueArcs" /\ AllIneligible) =>
         ~threw /\ retCount = 0


\* --------------------------------------------- repeated calls: the inputs

\* Two records of one route inside the viewport, a record of another route
\* whose origin is outside it, and a record without attributes.
PurePool ==
  { Rec(Num(1), Num(1), Num(9), Num(9), "France", "Paris", "Berlin"),
    Rec(Num(6), Num(1), Num(9), Num(9), "Italy", "Rome", "Berlin"),
    NoAttributes }

\* Zoom levels 4, 8 and 8.5, in halves.
PureZooms == {Num(8), Num(16), Num(17)}

\* The caller keeps what the last call returned (or that it threw).
KeepResult ==
  /\ held = NothingHeld
  /\ call.op # "none"
  /\ held' = [call |-> call, arcs |-> retArcs, count |-> retCount,
              aggs |-> retAggs, threw |-> threw, later |-> 0]
  /\ UNCHANGED <<objects, call, retArcs, retCount, retAggs, threw, inner, world>>

InitPure == InitWith(PurePool, MaxLen)

NextPure ==
  \/ CallCountUniqueArcs
  \/ CallAggregateByCountry
  \/ CallClusterArcs(DEFAULT_MAX_ARCS)
  \/ CallClusterArcsByCity(DEFAULT_CITY_MAX_ARCS)
  \/ \E zoom \in PureZooms, bounds \in {NoBounds, View} :
       CallGetArcsByZoomLevel(zoom, bounds)
  \/ CallFilterArcsByBounds(View, DEFAULT_PADDING_DEGREES)
  \/ KeepResult

SpecPure == InitPure /\ [][NextPure]_vars

\* --------------------------------------------- repeated calls: the claims

InitApp == objects = <<>> /\ EngineIdle /\ WorldIdle

\* ------------------------------------------------------- the page: the code

\* String.prototype.includes: sub occurs in msg, letter case included.
Includes(msg, sub) ==
  \E i \in 1..(Len(msg) - Len(sub) + 1) : SubSeq(msg, i, i + Len(sub) - 1) = sub

\* fetchWithRateLimit: the error thrown on a 429 when no retry is left, and
\* the error thrown on any other status that is not ok.
RateLimitExceeded == "Rate limit exceeded. Please try again later."

HttpError(status, errorText) ==
  "HTTP error! status: " \o status \o ", message: " \o errorText

\* fetchMuseumObjects wraps the message of every error it catches.
MuseumObjectsFailure(message) == "Failed to fetch museum objects: " \o message

\* The text that the catch block of fetchObjects looks for.
RATE_LIMIT_MARK == "rate limit"

\* fetchObjects up to its await: nothing when the page is rate limited, else
\* isLoading, no error, and the request under way.
fetchObjects(p, bounds, pageNo, reset) ==
  IF p.isRateLimited THEN [p EXCEPT !.failure = NoError]
  ELSE [p EXCEPT !.isLoading = TRUE, !.error = NoError, !.failure = NoError,
                 !.fetches = @ \union {[bounds |-> bounds, page |-> pageNo,
                                        reset |-> reset]}]

\* The map reports a viewport (debouncedBoundsChange), which reaches
\* handleBoundsChange when it differs from the last one reported.
BoundsChange(bounds) ==
  /\ page.error = NoError
  /\ page.lastBounds # bounds
  /\ Cardinality(page.fetches) < MaxInFlight
  /\ page' = IF page.isRateLimited
             THEN [page EXCEPT !.lastBounds = bounds, !.failure = NoError]
             ELSE fetchObjects([page EXCEPT !.lastBounds = bounds,
                                            !.currentBounds = bounds],
                               bounds, 1, TRUE)
  /\ UNCHANGED <<engine, now, client, proxy, stats>>

\* handleLoadMore, when its condition holds.
LoadMore ==
  /\ page.error = NoError
  /\ page.currentBounds # NoArea
  /\ page.hasMore /\ ~page.isLoading /\ ~page.isRateLimited
  /\ Cardinality(page.fetches) < MaxInFlight
  /\ page' = fetchObjects(page, page.currentBounds, page.currentPage + 1, FALSE)
  /\ UNCHANGED <<engine, now, client, proxy, stats>>

\* fetchMuseumObjects resolves for one of the calls under way: fetchObjects
\* continues after its await.
FetchResolves(f) ==
  /\ f \in page.fetches
  /\ page' = [page EXCEPT
       !.objects = IF f.reset \/ f.page = 1
                   THEN <<[bounds |-> f.bounds, page |-> f.page]>>
                   ELSE Append(@, [bounds |-> f.bounds, page |-> f.page]),
       !.hasMore = f.page < MaxPages,
       !.currentPage = f.page,
       !.isLoading = FALSE,
       !.failure = NoError,
       !.fetches = @ \ {f}]
  /\ UNCHANGED <<engine, now, client, proxy, stats>>

\* The messages fetchMuseumObjects can reject with: the 429 retries were
\* exhausted, the upstream failed with a body that speaks of a rate limit,
\* the upstream failed with another body.
FailureMessages ==
  { MuseumObjectsFailure(RateLimitExceeded),
    MuseumObjectsFailure(HttpError("503", "upstream rate limit reached")),
    MuseumObjectsFailure(HttpError("500", "Internal Server Error")) }

\* fetchMuseumObjects rejects for one of the calls under way: the catch and
\* finally blocks of fetchObjects.
FetchRejects(f, message) ==
  /\ f \in page.fetches
  /\ page' = [page EXCEPT
       !.isRateLimited = IF Includes(message, RATE_LIMIT_MARK) THEN TRUE ELSE @,
       !.error = IF Includes(message, RATE_LIMIT_MARK) THEN @ ELSE message,
       !.lastBounds = IF Includes(message, RATE_LIMIT_MARK) THEN @ ELSE NoArea,
       !.isLoading = FALSE,
       !.failure = message,
       !.fetches = @ \ {f}]
  /\ UNCHANGED <<engine, now, client, proxy, stats>>

\* handleRetry, offered by the error view and by the rate-limit warning.  Its
\* fetchObjects is the one of the render it was created in, so it still sees
\* the page as rate limited when the warning was showing.
Retry ==
  /\ page.error # NoError \/ page.isRateLimited
  /\ Cardinality(page.fetches) < MaxInFlight
  /\ page' = IF page.currentBounds = NoArea \/ page.isRateLimited
             THEN [page EXCEPT !.isRateLimited = FALSE, !.failure = NoError]
             ELSE fetchObjects(page, page.currentBounds, 1, TRUE)
  /\ UNCHANGED <<engine, now, client, proxy, stats>>

\* ----------------------------------------------------- the page: the inputs

\* Two viewports that differ by more than 0.1 degree.
Areas == {"A", "B"}

NextPage ==
  \/ \E bounds \in Areas : BoundsChange(bounds)
  \/ LoadMore
  \/ \E f \in page.fetches : FetchResolves(f)
  \/ \E f \in page.fetches, message \in FailureMessages : FetchRejects(f, message)
  \/ Retry

SpecPage == InitApp /\ [][NextPage]_vars

\* ----------------------------------------------------- the page: the claims

\* C24 (as claimed): once every fetch has completed, the object list of the
\* page holds only results fetched for the bounds requested last; a response
\* for older bounds that completes after a newer request was issued neither
\* replaces nor is appended to the newer results.
C24_StaleResultsDiscarded ==
  (page.fetches = {} /\ page.error = NoError /\ ~page.isRateLimited) =>
    \A i \in 1..Len(page.objects) : page.objects[i].bounds = page.currentBounds

\* C29 (as claimed): when fetchMuseumObjects failed because fetchWithRateLimit
\* exhausted its 429 retries, fetchObjects has set isRateLimited and has not
\* set the generic error.
C29_RateLimitReachesUI ==
  page.failure = MuseumObjectsFailure(RateLimitExceeded) =>
    page.isRateLimited /\ page.error = NoError


\* ------------------------------------------------- the API client: the code

CACHE_DURATION == 600000

DEFAULT_RETRIES == 3

\* No cacheKey argument.
NoKey == ""

\* One step of the clock, in milliseconds.
TICK == MIN_REQUEST_INTERVAL

\* Time passes, once the timers set for the present moment have fired.
Tick ==
  /\ now < StartTime + MaxTicks * TICK
  /\ \A id \in 1..Len(client.calls) :
       client.calls[id].pc \in {"waiting", "backoff"} => client.calls[id].wake > now
  /\ now' = now + TICK
  /\ UNCHANGED <<engine, client, proxy, stats, page>>

\* An invocation of fetchWithRateLimit: its cacheKey and retries arguments
\* (retries is lowered by every recursive call), the await it stands at
\* ("waiting": wait(waitTime); "fetching": fetch(url); "backoff":
\* wait(retryAfter); or settled), the time its timer is set for, and for the
\* caller the retries it was first given, the fetches made and the message it
\* rejected with.
NewCall(cacheKey, retries) ==
  [cacheKey |-> cacheKey, retries |-> retries, pc |-> "start", wake |-> 0,
   budget |-> retries, fetches |-> 0, message |-> NoError]

\* cacheKey && apiCache[cacheKey] && Date.now() - timestamp < CACHE_DURATION
CacheHit(cl, cacheKey, t) ==
  /\ cacheKey # NoKey
  /\ \E e \in cl.apiCache : e.key = cacheKey /\ t - e.timestamp < CACHE_DURATION

\* lastRequestTime = Date.now(); fetch(url, options).  The fetch before
\* this one was issued at the former lastRequestTime.
IssueFetch(cl, id, t) ==
  [cl EXCEPT !.lastRequestTime = t,
             !.issued = @ + 1,
             !.shortest = Min(@, t - cl.lastRequestTime),
             !.calls[id].pc = "fetching",
             !.calls[id].fetches = @ + 1]

\* fetchWithRateLimit from its entry to its first await: the cached data, or
\* the wait for the rest of the interval, or the fetch.
Enter(cl, id, t) ==
  LET c == cl.calls[id]
      timeSinceLastRequest == t - cl.lastRequestTime
  IN  IF CacheHit(cl, c.cacheKey, t)
      THEN [cl EXCEPT !.calls[id].pc = "resolved"]
      ELSE IF timeSinceLastRequest < MIN_REQUEST_INTERVAL
      THEN [cl EXCEPT !.calls[id].pc = "waiting",
                      !.calls[id].wake =
                          t + (MIN_REQUEST_INTERVAL - timeSinceLastRequest)]
      ELSE IssueFetch(cl, id, t)

\* The budget passed to the retry that restarts the whole budget.
RetriesRestarted(retries) == DEFAULT_RETRIES

\* fetchWithRateLimit(url, options, retries - 1, cacheKey)
RetriesLeft(retries) == retries - 1

\* Math.pow(2, 4 - retries) * 1000, for retries of 1 to 4
Backoff(retries) == Pow2(4 - retries) * 1000

\* parseInt(retry-after || "0") * 1000 || Math.pow(2, 4 - retries) * 1000
RetryAfter(response, retries) ==
  IF response.retryAfter * 1000 # 0 THEN response.retryAfter * 1000
  ELSE Backoff(retries)

\* fetchWithRateLimit after await fetch: the response is handled, and an
\* error thrown on the way is handled by the catch block.
HandleResponse(cl, id, response, t) ==
  LET c == cl.calls[id]
      thrown == IF response.status = 429 THEN RateLimitExceeded
                ELSE HttpError(ToString(response.status), response.body)
  IN  IF response.status = 200
      THEN [cl EXCEPT
             !.calls[id].pc = "resolved",
             !.apiCache = IF c.cacheKey = NoKey THEN @
                          ELSE {e \in @ : e.key # c.cacheKey}
                               \union {[key |-> c.cacheKey, timestamp |-> t]}]
      ELSE IF response.status = 429 /\ c.retries > 0
      THEN [cl EXCEPT !.calls[id].pc = "backoff",
                      !.calls[id].wake = t + RetryAfter(response, c.retries)]
      ELSE IF Includes(thrown, "Rate limit") /\ c.retries > 0
      THEN [cl EXCEPT !.calls[id].pc = "backoff",
                      !.calls[id].wake = t + Backoff(c.retries)]
      ELSE [cl EXCEPT !.calls[id].pc = "rejected",
                      !.calls[id].message = thrown]

\* A caller invokes fetchWithRateLimit.
Invoke(cacheKey, retries) ==
  /\ Len(client.calls) < MaxCalls
  /\ LET id == Len(client.calls) + 1
     IN  client' = Enter([client EXCEPT !.calls = Append(@, NewCall(cacheKey, retries))],
                         id, now)
  /\ UNCHANGED <<engine, now, proxy, stats, page>>

\* The timer of wait(waitTime) fires.
WaitEnds(id) ==
  /\ client.calls[id].pc = "waiting"
  /\ now >= client.calls[id].wake
  /\ client' = IssueFetch(client, id, now)
  /\ UNCHANGED <<engine, now, proxy, stats, page>>

\* The response of the upstream arrives.
Responds(id, response) ==
  /\ client.calls[id].pc = "fetching"
  /\ client' = HandleResponse(client, id, response, now)
  /\ UNCHANGED <<engine, now, proxy, stats, page>>

\* The timer of wait(retryAfter) fires: the recursive call, whose promise
\* is returned without await.
BackoffEnds(id) ==
  /\ client.calls[id].pc = "backoff"
  /\ now >= client.calls[id].wake
  /\ client' = Enter([client EXCEPT
                        !.calls[id].retries = RetriesLeft(@)], id, now)
  /\ UNCHANGED <<engine, now, proxy, stats, page>>

\* --------------------------------------------- the API client: the inputs

\* 429 without and with a Retry-After header (of one second).
TooManyRequests ==
  { [status |-> 429, retryAfter |-> 0, body |-> ""],
    [status |-> 429, retryAfter |-> 1, body |-> ""] }

\* Success, and failures whose body does and does not speak of a rate limit.
OtherResponses ==
  { [status |-> 200, retryAfter |-> 0, body |-> ""],
    [status |-> 500, retryAfter |-> 0, body |-> "Internal Server Error"],
    [status |-> 503, retryAfter |-> 0, body |-> "Rate limit of the upstream"] }

\* A key of getBoundsCacheKey.
BoundsKey == "bounds:A:page:1"

CacheKeys == {NoKey, BoundsKey}

\* The client with an upstream that answers every request with 429.
NextRetry ==
  \/ \E retries \in 0..DEFAULT_RETRIES : Invoke(BoundsKey, retries)
  \/ \E id \in 1..Len(client.calls) : WaitEnds(id)
  \/ \E id \in 1..Len(client.calls), response \in TooManyRequests :
       Responds(id, response)
  \/ \E id \in 1..Len(client.calls) : BackoffEnds(id)
  \/ Tick

SpecRetry == InitApp /\ [][NextRetry]_vars

\* The client with an upstream that answers as it likes.
NextClient ==
  \/ \E cacheKey \in CacheKeys : Invoke(cacheKey, DEFAULT_RETRIES)
  \/ \E id \in 1..Len(client.calls) : WaitEnds(id)
  \/ \E id \in 1..Len(client.calls),
        response \in TooManyRequests \union OtherResponses :
       Responds(id, response)
  \/ \E id \in 1..Len(client.calls) : BackoffEnds(id)
  \/ Tick

SpecClient == InitApp /\ [][NextClient]_vars

\* --------------------------------------------- the API client: the claims

\* C26: with an upstream that answers every request with 429, an invocation
\* with retries = n never makes more than n + 1 fetches, never resolves, has
\* made exactly n + 1 fetches when it rejects, rejects with the 'Rate limit
\* exceeded' error, and nothing is written to the cache.
C26_BoundedRetry ==
  /\ client.apiCache = {}
  /\ \A id \in 1..Len(client.calls) :
       LET c == client.calls[id]
       IN  /\ c.fetches <= c.budget + 1
           /\ c.pc # "resolved"
           /\ c.pc = "rejected" =>
                c.fetches = c.budget + 1 /\ c.message = RateLimitExceeded

\* An invocation with the default of 3 retries has rejected after 4 fetches
\* while another invocation was under way.
C26_Witness ==
  \E id \in 1..Len(client.calls) :
    /\ client.calls[id].budget = DEFAULT_RETRIES
    /\ client.calls[id].pc = "rejected"
    /\ client.calls[id].fetches = DEFAULT_RETRIES + 1
    /\ client.issued > DEFAULT_RETRIES + 1

\* C27 (as claimed): no two upstream fetches of fetchWithRateLimit are issued
\* less than MIN_REQUEST_INTERVAL apart.
C27_MinimumSpacing == client.shortest >= MIN_REQUEST_INTERVAL


\* ------------------------------------------------------ the proxy: the code

PROXY_CACHE_DURATION == 300000

RATE_LIMIT_WINDOW == 60000

RATE_LIMIT_MAX_REQUESTS == 10

\* Math.ceil(a / b) for a >= 0
CeilDiv(a, b) == (a + b - 1) \div b

\* responseCache.get(cacheKey) is there and younger than CACHE_DURATION
ProxyCacheHit(px, cacheKey, t) ==
  \E e \in px.responseCache :
    e.key = cacheKey /\ t - e.timestamp < PROXY_CACHE_DURATION

\* A limiter that starts a new window for every request.
WindowAlwaysOver(entry, t) == TRUE

\* !requestCounts[clientIp] || now > requestCounts[clientIp].resetTime
WindowOver(entry, t) == entry = NoCount \/ t > entry.resetTime

\* The counter of a client after one more request at time t.
Counted(entry, t) ==
  LET e == IF WindowOver(entry, t)
           THEN [count |-> 0, resetTime |-> t + RATE_LIMIT_WINDOW] ELSE entry
  IN  [e EXCEPT !.count = @ + 1]

\* The 60-second window of a client after one more request at time t that
\* missed the cache.
WindowAfter(w, t, forwarded) ==
  LET v == IF w.arrived = 0 \/ t > w.start + RATE_LIMIT_WINDOW
           THEN [start |-> t, arrived |-> 0, forwarded |-> 0] ELSE w
  IN  [v EXCEPT !.arrived = @ + 1,
                !.forwarded = IF forwarded THEN @ + 1 ELSE @]

\* GET /api/proxy from its entry to its first await or to its return.
ProxyGet(ip, cacheKey, token) ==
  LET before == proxy.requestCounts[ip]
      after == Counted(before, now)
      limited == after.count > RATE_LIMIT_MAX_REQUESTS
      timeSinceLastRequest == now - proxy.lastRequestTime
      answer == [NoAnswer EXCEPT !.ip = ip]
  IN
  /\ proxy.window[ip].arrived < MaxArrivals \/ now > proxy.window[ip].start + RATE_LIMIT_WINDOW
  /\ proxy' =
       IF token = "wrong"
       THEN [proxy EXCEPT !.last = [answer EXCEPT !.kind = "unauthorized",
                                       !.status = 401]]
       ELSE IF ProxyCacheHit(proxy, cacheKey, now)
       THEN [proxy EXCEPT !.last = [answer EXCEPT !.kind = "cached",
                                       !.status = 200]]
       ELSE IF limited
       THEN [proxy EXCEPT
              !.requestCounts[ip] = after,
              !.window[ip] = WindowAfter(@, now, FALSE),
              !.last = [answer EXCEPT !.kind = "limited", !.status = 429,
                           !.retryAfter = CeilDiv(after.resetTime - now, 1000),
                           !.counted = after # before]]
       ELSE IF timeSinceLastRequest < MIN_REQUEST_INTERVAL
       THEN [proxy EXCEPT
              !.requestCounts[ip] = after,
              !.window[ip] = WindowAfter(@, now, TRUE),
              !.requests = @ \union
                 {[ip |-> ip, cacheKey |-> cacheKey, pc |-> "waiting",
                   wake |-> now + (MIN_REQUEST_INTERVAL - timeSinceLastRequest)]},
              !.last = [answer EXCEPT !.kind = "forwarded",
                           !.counted = after # before, !.fetch = TRUE]]
       ELSE [proxy EXCEPT
              !.requestCounts[ip] = after,
              !.window[ip] = WindowAfter(@, now, TRUE),
              !.lastRequestTime = now,
              !.shortest = Min(@, now - proxy.lastRequestTime),
              !.requests = @ \union
                 {[ip |-> ip, cacheKey |-> cacheKey, pc |-> "fetching", wake |-> 0]},
              !.last = [answer EXCEPT !.kind = "forwarded",
                           !.counted = after # before, !.fetch = TRUE]]
  /\ Cardinality(proxy'.requests) <= MaxForwarding
  /\ UNCHANGED <<engine, now, client, stats, page>>

\* The timer of wait(...) fires: lastRequestTime = Date.now(), fetch(apiURL).
ProxyWaitEnds(r) ==
  /\ r \in proxy.requests
  /\ r.pc = "waiting"
  /\ now >= r.wake
  /\ proxy' = [proxy EXCEPT
       !.lastRequestTime = now,
       !.shortest = Min(@, now - proxy.lastRequestTime),
       !.requests = (@ \ {r}) \union {[r EXCEPT !.pc = "fetching"]}]
  /\ UNCHANGED <<engine, now, client, stats, page>>

\* The upstream answers: a success is stored in responseCache, a 429 and an
\* error are passed on.
ProxyResponds(r, status) ==
  /\ r \in proxy.requests
  /\ r.pc = "fetching"
  /\ proxy' = [proxy EXCEPT
       !.requests = @ \ {r},
       !.responseCache =
           IF status = 200
           THEN {e \in @ : e.key # r.cacheKey}
                \union {[key |-> r.cacheKey, timestamp |-> now]}
           ELSE @]
  /\ UNCHANGED <<engine, now, client, stats, page>>

\* One step of the clock of the proxy: the length of a window, so that a
\* request can arrive at the very end of a window and after it.
WINDOW_TICK == RATE_LIMIT_WINDOW

ProxyTick ==
  /\ now < StartTime + MaxWindowTicks * WINDOW_TICK
  /\ now' = now + WINDOW_TICK
  /\ UNCHANGED <<engine, client, proxy, stats, page>>

\* ---------------------------------------------------- the proxy: the inputs

\* The URLs requested (they are the cache keys).
ProxyUrls == {"/api/proxy?page=1"}

NextProxy ==
  \/ \E ip \in Clients, cacheKey \in ProxyUrls, token \in {"none", "wrong"} :
       ProxyGet(ip, cacheKey, token)
  \/ \E r \in proxy.requests : ProxyWaitEnds(r)
  \/ \E r \in proxy.requests, status \in {200, 429} : ProxyResponds(r, status)
  \/ ProxyTick

SpecProxy == InitApp /\ [][NextProxy]_vars

\* ---------------------------------------------------- the proxy: the claims

\* C28: of the requests of one client that miss the cache and arrive within
\* one 60-second window, at most 10 are forwarded; a request is refused only
\* when 10 were forwarded, with status 429, a Retry-After header and no fetch
\* of its own; a request answered from the cache leaves the counter alone.
C28_PerClientLimit ==
  /\ \A ip \in Clients :
       /\ proxy.window[ip].forwarded <= RATE_LIMIT_MAX_REQUESTS
       /\ proxy.window[ip].forwarded =
            IF proxy.window[ip].arrived <= RATE_LIMIT_MAX_REQUESTS
            THEN proxy.window[ip].arrived ELSE RATE_LIMIT_MAX_REQUESTS
  /\ proxy.last.kind = "limited" =>
       /\ proxy.last.status = 429
       /\ proxy.last.retryAfter \in 0..(RATE_LIMIT_WINDOW \div 1000)
       /\ ~proxy.last.fetch
       /\ proxy.window[proxy.last.ip].forwarded = RATE_LIMIT_MAX_REQUESTS
  /\ proxy.last.kind = "forwarded" => proxy.last.fetch /\ proxy.last.counted
  /\ proxy.last.kind = "cached" =>
       /\ ~proxy.last.counted
       /\ ~proxy.last.fetch

\* A client was refused its eleventh request of a window in which ten were
\* forwarded, at the last moment of the window, while the other client was
\* served.
C28_Witness ==
  /\ proxy.last.kind = "limited"
  /\ proxy.last.ip = "unknown"
  /\ proxy.last.retryAfter = 0
  /\ proxy.window["unknown"].arrived = 11
  /\ proxy.window["unknown"].forwarded = RATE_LIMIT_MAX_REQUESTS
  /\ proxy.window["10.0.0.1"].forwarded > 0

\* The proxy keeps MIN_REQUEST_INTERVAL between its upstream fetches.
ProxySpacing == proxy.shortest >= MIN_REQUEST_INTERVAL


\* ------------------------------------------------ the stats route: the code

STATS_CACHE_DURATION == 600000

\* A refresh that does not raise the flag.
RefreshWithoutFlag(st) == [st EXCEPT !.background = @ + 1]

\* refreshStatsInBackground up to its await: nothing when a refresh is under
\* way, else the flag is raised and fetchStats is called.
refreshStatsInBackground(st) ==
  IF st.isRefreshing THEN st
  ELSE [st EXCEPT !.isRefreshing = TRUE, !.background = @ + 1]

\* GET /api/stats up to its await or its return: a miss awaits fetchStats,
\* a hit on an ageing cache starts the background refresh and returns, any
\* other hit returns.
StatsGet ==
  /\ stats' =
       IF stats.data = NoStats \/ now - stats.timestamp > STATS_CACHE_DURATION
       THEN [stats EXCEPT !.misses = @ \union {now}, !.outcome = "none"]
       ELSE IF /\ now - stats.timestamp > STATS_CACHE_DURATION \div 2
               /\ ~stats.isRefreshing
       THEN [refreshStatsInBackground(stats) EXCEPT !.outcome = "none"]
       ELSE [stats EXCEPT !.outcome = "none"]
  /\ UNCHANGED <<engine, now, client, proxy, page>>

\* fetchStats resolves for a GET that missed: the data, and the time the GET
\* had read at its start.
MissResolves(t) ==
  /\ t \in stats.misses
  /\ stats' = [stats EXCEPT !.data = now, !.timestamp = t,
                            !.misses = @ \ {t}, !.outcome = "none"]
  /\ UNCHANGED <<engine, now, client, proxy, page>>

\* fetchStats rejects for a GET that missed: status 500.
MissRejects(t) ==
  /\ t \in stats.misses
  /\ stats' = [stats EXCEPT !.misses = @ \ {t}, !.outcome = "none"]
  /\ UNCHANGED <<engine, now, client, proxy, page>>

\* fetchStats resolves for the background refresh: try and finally.
RefreshResolves ==
  /\ stats.background > 0
  /\ stats' = [stats EXCEPT !.data = now, !.timestamp = now,
                            !.isRefreshing = FALSE,
                            !.background = @ - 1, !.outcome = "refreshed"]
  /\ UNCHANGED <<engine, now, client, proxy, page>>

\* fetchStats rejects for the background refresh: catch and finally.
RefreshRejects ==
  /\ stats.background > 0
  /\ stats' = [stats EXCEPT !.isRefreshing = FALSE,
                            !.background = @ - 1, !.outcome = "failed"]
  /\ UNCHANGED <<engine, now, client, proxy, page>>

\* One step of the clock of the stats route: a third of the cache duration.
STATS_TICK == STATS_CACHE_DURATION \div 3

StatsTick ==
  /\ now < StartTime + MaxStatsTicks * STATS_TICK
  /\ now' = now + STATS_TICK
  /\ UNCHANGED <<engine, client, proxy, stats, page>>

\* ---------------------------------------------- the stats route: the inputs

NextStats ==
  \/ StatsGet
  \/ \E t \in stats.misses : MissResolves(t)
  \/ \E t \in stats.misses : MissRejects(t)
  \/ RefreshResolves
  \/ RefreshRejects
  \/ StatsTick

SpecStats == InitApp /\ [][NextStats]_vars

\* ---------------------------------------------- the stats route: the claims

\* C30: at most one background refresh is under way at any time, isRefreshing
\* is false whenever none is under way, and the step in which a background
\* refresh fails changes neither the cached data nor its timestamp.
C30_SingleFlightRefresh ==
  /\ [](stats.background <= 1 /\ (stats.background = 0 => ~stats.isRefreshing))
  /\ [][(stats'.background < stats.background /\ stats'.outcome = "failed") =>
          /\ stats'.data = stats.data
          /\ stats'.timestamp = stats.timestamp]_vars

\* A background refresh has failed while a GET that found the cache expired
\* was awaiting its own fetch; the flag is down and the stats fetched first
\* are still cached.
C30_Witness ==
  /\ stats.outcome = "failed"
  /\ stats.background = 0 /\ ~stats.isRefreshing
  /\ stats.data = StartTime /\ stats.timestamp = StartTime
  /\ stats.misses # {}

====
